---- MODULE Spec2Model ----
(***************************************************************************)
(* tailvad: the exit-node dashboard (TailvadTUI), its reconciliation       *)
(* poller threads and the external tailscale command they query.           *)
(*                                                                         *)
(* Hostnames are numbered 1..MaxNodes, 0 is "no hostname" (None / "").     *)
(* Countries are strings, "" is "no filter" (None).  Indices are 0-based   *)
(* as in the program; exit_node_entries[i] of the program is               *)
(* exit_node_entries[i+1] here.                                            *)
(***************************************************************************)
EXTENDS Integers, Sequences, FiniteSets, TLC

\* ---------------------------------------------------------------- bounds
MaxNodes == 2
MaxPollers == 2
MaxKeys == 3
MaxLen == 7
MaxHeight == 13
MaxQuery == 3
MaxMenuKeys == 5
MaxText == 4

\* ------------------------------------------------------ program constants
\* _start_status_polling: join(timeout=2), in seconds.
JoinTimeout == 2
\* _poll_status: time.sleep(1), in seconds.
SleepInterval == 1

Threads == 1..MaxPollers
HostIds == 0..MaxNodes
NoIndex == 0 - 1

VARIABLES
    \* the external system (tailscale)
    inventory,          \* rows of `tailscale exit-node list`, without status
    extSelected,        \* hostname whose row has status "selected", or 0
    extActive,          \* hostname on the "exit node;" line of status, or 0
    extSuggested,       \* hostname of `tailscale exit-node suggest`, or 0
    \* TailvadTUI fields
    current_selection,
    suggested_index,
    active_exit_node,
    exit_node_entries,
    country_filter,
    stop_polling,
    polling_thread,
    pending_hostname,
    \* the foreground thread (start_tui / handle_key_press)
    fgpc,               \* "readkey", "join", "sleep", "picker", "terminated"
    k,                  \* the key last read by handle_key_press
    hostname,           \* argument of _start_status_polling while it joins
    fgExc,              \* the exception that ended the process, or "none"
    keys,               \* how many more times readkey is called in the run
    \* the poller threads (_poll_status), one record per thread slot
    threads,
    \* the list view checked on its own (cursor movement and windowing)
    view,
    \* the country picker checked on its own (CountryFilterMenu)
    menu,
    \* one call of fuzzy_match checked on its own
    scan

extVars == <<inventory, extSelected, extActive, extSuggested>>
tuiVars == <<current_selection, suggested_index, active_exit_node,
             exit_node_entries, country_filter, stop_polling,
             polling_thread, pending_hostname>>
fgVars == <<fgpc, k, hostname, fgExc, keys>>
vars == <<extVars, tuiVars, fgVars, threads, view, menu, scan>>

\* ------------------------------------------------ the external commands
CountryOf(h) == IF h % 2 = 1 THEN "Albania" ELSE "Brazil"

\* The rows the external system lists when it has n exit nodes.
InventoryOf(n) == [i \in 1..n |-> [hostname |-> i, country |-> CountryOf(i)]]

\* get_tailscale_list_nodes(country_filter): the rows of the country (all
\* rows without a filter), in listing order, each with its status.
get_tailscale_list_nodes(flt) ==
    LET Keep(row) == flt = "" \/ row.country = flt
        Entry(row) == [hostname |-> row.hostname, country |-> row.country,
                       status |-> IF row.hostname = extSelected
                                  THEN "selected" ELSE "-"]
        kept == SelectSeq(inventory, Keep)
    IN [i \in 1..Len(kept) |-> Entry(kept[i])]

get_tailscale_current_exit_node == extActive

get_tailscale_suggested_exit_node == extSuggested

\* ------------------------------------------------------ pure operations
\* MoveDown without the wrap-around: the cursor stops on the last row.
MoveDownClamped(cursor, n) == IF cursor + 1 < n THEN cursor + 1 ELSE n - 1

\* handle_key_press, DOWN / "j": Python's % with a positive divisor.
MoveDown(cursor, n) == (cursor + 1) % n

\* handle_key_press, UP / "k".
MoveUp(cursor, n) == (cursor - 1) % n

Max(a, b) == IF a > b THEN a ELSE b

\* generate_populated_table: the visible range of row indices.
MinBounds(cursor) == Max(0, cursor - 5)

VisibleRange(cursor, height) ==
    MinBounds(cursor)..(MinBounds(cursor) + (height \div 2) - 1)

\* The indices of the rows generate_populated_table adds to the table.
RenderedRows(cursor, height, len) ==
    {idx \in 0..(len - 1) : idx \in VisibleRange(cursor, height)}

\* find_index_for_suggested_exit_node: first index whose hostname is the
\* suggested one, NoIndex when there is no suggestion or no such row.
find_index_for_suggested_exit_node(entries) ==
    LET suggested == get_tailscale_suggested_exit_node
        hits == {i \in 1..Len(entries) : entries[i].hostname = suggested}
    IN IF suggested = 0 \/ hits = {} THEN NoIndex
       ELSE (CHOOSE i \in hits : \A j \in hits : i <= j) - 1

\* _poll_status, lines 313-316.
StatusSelected(entries, target) ==
    \E i \in 1..Len(entries) :
        entries[i].hostname = target /\ entries[i].status = "selected"

\* _poll_status, line 320.
IsActive(active_node, target) == active_node # 0 /\ active_node = target

\* generate_populated_table, lines 207-211: the self-heal condition.
SelfHeal(recorded, active_node) ==
    recorded # 0 /\ active_node # 0 /\ recorded = active_node

\* generate_populated_table run in one piece by the foreground thread:
\* the entries, the recorded active node and the cursor it leaves.
generate_populated_table(jump_to_suggested, entries, flt, sidx, sel) ==
    LET active_node == get_tailscale_current_exit_node
    IN [entries |-> IF SelfHeal(active_exit_node, active_node)
                    THEN get_tailscale_list_nodes(flt) ELSE entries,
        active |-> active_node,
        selection |-> IF jump_to_suggested /\ sidx # NoIndex
                      THEN sidx ELSE sel]

\* ------------------------------------------------------------- threads
Unstarted == [pc |-> "unstarted", target |-> 0, listed |-> <<>>,
              status_selected |-> FALSE, is_active |-> FALSE,
              active_node |-> 0, how |-> "none"]

Started(target) == [Unstarted EXCEPT !.pc = "top", !.target = target]

\* Thread.is_alive(); slot 0 is "no thread" (self._polling_thread is None).
Alive(t) ==
    t \in Threads /\ threads[t].pc \notin {"unstarted", "returned", "raised"}

NoView == [len |-> 0, start |-> 0, cursor |-> 0, height |-> 0,
           downs |-> 0, ups |-> 0, rows |-> {}]

\* No picker is open.
NoMenu == [all_countries |-> <<>>, filtered_countries |-> <<>>,
           search_query |-> <<>>, selection |-> 0, k |-> "", keys |-> 0,
           typed |-> 0, erased |-> 0, outcome |-> "none", returned |-> <<>>]

\* No call of fuzzy_match is in progress.
NoScan == [query |-> <<>>, text |-> <<>>, given_query |-> <<>>,
           given_text |-> <<>>, pos |-> 0, query_idx |-> 0,
           result |-> "none"]

\* ---------------------------------------------------------------- Init
\* TailvadTUI.__init__ followed by start_tui's first render, with the
\* external system at rest: the node it marks selected, if any, is active.
Init ==
    /\ inventory \in {InventoryOf(n) : n \in 0..MaxNodes}
    /\ extSelected \in HostIds
    /\ extActive = extSelected
    /\ extSuggested \in HostIds
    /\ current_selection = 0
    /\ suggested_index = NoIndex
    /\ active_exit_node = extActive
    /\ exit_node_entries = get_tailscale_list_nodes("")
    /\ country_filter = ""
    /\ stop_polling = FALSE
    /\ polling_thread = 0
    /\ pending_hostname = 0
    /\ fgpc = "readkey"
    /\ k = ""
    /\ hostname = 0
    /\ fgExc = "none"
    /\ keys = MaxKeys
    /\ threads = [t \in Threads |-> Unstarted]
    /\ view = NoView
    /\ menu = NoMenu
    /\ scan = NoScan

\* ------------------------------------------------- the external system
\* The external system applies a requested exit node asynchronously: some
\* time after `tailscale set --exit-node`, the node it marks selected
\* becomes the active one (or, once cleared, none is).
ExtApply ==
    /\ fgpc # "terminated"
    /\ extActive # extSelected
    /\ extActive' = extSelected
    /\ UNCHANGED <<inventory, extSelected, extSuggested, tuiVars, fgVars,
                   threads, view, menu, scan>>

\* ------------------------------------------------ the foreground thread
\* The process ends with an uncaught exception or SystemExit; its daemon
\* poller threads end with it.
Terminate(exc) ==
    /\ fgpc' = "terminated"
    /\ fgExc' = exc
    /\ hostname' = 0

\* handle_key_press, line 157: readkey is called, while the run has keys
\* left.
ReadKey ==
    /\ fgpc = "readkey"
    /\ keys > 0
    /\ keys' = keys - 1

\* live.update(self.generate_populated_table(jump), refresh=True) at the end
\* of a handler that has brought the state to (entries, flt, sidx, sel).
Rerender(jump, entries, flt, sidx, sel) ==
    LET r == generate_populated_table(jump, entries, flt, sidx, sel)
    IN /\ exit_node_entries' = r.entries
       /\ active_exit_node' = r.active
       /\ current_selection' = r.selection
       /\ country_filter' = flt
       /\ suggested_index' = sidx

\* The handler returns to start_tui's loop, which calls readkey again.
Return ==
    /\ fgpc' = "readkey"
    /\ k' = ""
    /\ hostname' = 0
    /\ fgExc' = fgExc

\* handle_key_press, lines 161-164 (DOWN or "j"), then lines 199-202.
KeyDown ==
    /\ ReadKey
    /\ IF Len(exit_node_entries) = 0
       THEN /\ Terminate("ZeroDivisionError")
            /\ \E key \in {"DOWN", "j"} : k' = key
            /\ UNCHANGED tuiVars
       ELSE /\ Rerender(FALSE, exit_node_entries, country_filter,
                        suggested_index,
                        MoveDown(current_selection, Len(exit_node_entries)))
            /\ Return
            /\ UNCHANGED <<stop_polling, polling_thread, pending_hostname>>
    /\ UNCHANGED <<extVars, threads, view, menu, scan>>

\* handle_key_press, lines 165-168 (UP or "k"), then lines 199-202.
KeyUp ==
    /\ ReadKey
    /\ IF Len(exit_node_entries) = 0
       THEN /\ Terminate("ZeroDivisionError")
            /\ \E key \in {"UP", "k"} : k' = key
            /\ UNCHANGED tuiVars
       ELSE /\ Rerender(FALSE, exit_node_entries, country_filter,
                        suggested_index,
                        MoveUp(current_selection, Len(exit_node_entries)))
            /\ Return
            /\ UNCHANGED <<stop_polling, polling_thread, pending_hostname>>
    /\ UNCHANGED <<extVars, threads, view, menu, scan>>

\* Any key no branch of handle_key_press names: lines 199-202 alone.
KeyOther ==
    /\ ReadKey
    /\ Rerender(FALSE, exit_node_entries, country_filter, suggested_index,
                current_selection)
    /\ Return
    /\ UNCHANGED <<stop_polling, polling_thread, pending_hostname, extVars,
                   threads, view, menu, scan>>

\* The threads not yet created: each threading.Thread of line 300 is a new
\* one, and at most MaxPollers are created.
FreeSlots == {t \in Threads : threads[t].pc = "unstarted"}

NewSlot == CHOOSE t \in FreeSlots : \A u \in FreeSlots : t <= u

\* _start_status_polling, line 294, up to the join of line 296.
BeginStartPolling(key, target) ==
    /\ stop_polling' = TRUE
    /\ fgpc' = "join"
    /\ k' = key
    /\ hostname' = target
    /\ fgExc' = fgExc

\* handle_key_press, lines 169-180 ("s"): with a suggestion, apply it and
\* start polling for it; without one, recompute suggested_index and render.
KeyS ==
    /\ ReadKey
    /\ LET suggested == get_tailscale_suggested_exit_node
       IN IF suggested # 0
          THEN /\ FreeSlots # {}
               /\ extSelected' = suggested
               /\ BeginStartPolling("s", suggested)
               /\ UNCHANGED <<current_selection, suggested_index,
                              active_exit_node, exit_node_entries,
                              country_filter, polling_thread,
                              pending_hostname>>
          ELSE /\ Rerender(TRUE, exit_node_entries, country_filter,
                           find_index_for_suggested_exit_node(exit_node_entries),
                           current_selection)
               /\ Return
               /\ UNCHANGED <<extSelected, stop_polling, polling_thread,
                              pending_hostname>>
    /\ UNCHANGED <<inventory, extActive, extSuggested, threads, view, menu, scan>>

\* handle_key_press, lines 181-184 (ENTER): apply the hostname under the
\* cursor and start polling for it.
KeyEnter ==
    /\ ReadKey
    /\ IF current_selection >= Len(exit_node_entries)
       THEN /\ Terminate("IndexError")
            /\ k' = "ENTER"
            /\ UNCHANGED <<tuiVars, extSelected>>
       ELSE LET target == exit_node_entries[current_selection + 1].hostname
            IN /\ FreeSlots # {}
               /\ extSelected' = target
               /\ BeginStartPolling("ENTER", target)
               /\ UNCHANGED <<current_selection, suggested_index,
                              active_exit_node, exit_node_entries,
                              country_filter, polling_thread,
                              pending_hostname>>
    /\ UNCHANGED <<inventory, extActive, extSuggested, threads, view, menu, scan>>

\* _start_status_polling, lines 298-305, then the rest of the handler:
\* lines 175-180 after "s", lines 199-202 after ENTER.
FinishStartPolling ==
    /\ FreeSlots # {}
    /\ keys' = keys
    /\ stop_polling' = FALSE
    /\ pending_hostname' = hostname
    /\ threads' = [threads EXCEPT ![NewSlot] = Started(hostname)]
    /\ polling_thread' = NewSlot
    /\ IF k = "s"
       THEN Rerender(TRUE, exit_node_entries, country_filter,
                     find_index_for_suggested_exit_node(exit_node_entries),
                     current_selection)
       ELSE Rerender(FALSE, exit_node_entries, country_filter,
                     suggested_index, current_selection)
    /\ Return
    /\ UNCHANGED <<extVars, view, menu, scan>>

\* _start_status_polling, lines 295-296: there is no live previous thread,
\* or join returns because it has ended.
JoinReturns ==
    /\ fgpc = "join"
    /\ ~Alive(polling_thread)
    /\ FinishStartPolling

\* _start_status_polling, line 296: join(timeout=2) gives up on a previous
\* thread that is still inside an iteration, whose commands take as long as
\* they take.  A thread that is asleep (line 339) or has yet to make its
\* first check wakes and sees the stop signal before a longer timeout ends.
JoinTimesOut ==
    /\ fgpc = "join"
    /\ Alive(polling_thread)
    /\ threads[polling_thread].pc = "top" => JoinTimeout <= SleepInterval
    /\ FinishStartPolling

\* handle_key_press, lines 185-187 ("d"): clear the exit node, then sleep.
KeyD ==
    /\ ReadKey
    /\ extSelected' = 0
    /\ fgpc' = "sleep"
    /\ k' = "d"
    /\ UNCHANGED <<hostname, fgExc, tuiVars, inventory, extActive,
                   extSuggested, threads, view, menu, scan>>

\* handle_key_press, line 188 after the sleep, then lines 199-202.
WakeD ==
    /\ fgpc = "sleep"
    /\ keys' = keys
    /\ Rerender(FALSE, get_tailscale_list_nodes(country_filter),
                country_filter, suggested_index, current_selection)
    /\ Return
    /\ UNCHANGED <<stop_polling, polling_thread, pending_hostname, extVars,
                   threads, view, menu, scan>>

\* self._all_countries as CountryFilterMenu keeps it: sorted(set(countries)).
all_countries == {inventory[i].country : i \in 1..Len(inventory)}

\* handle_key_press, lines 189-191 ("f"): _show_filter_menu opens the
\* picker, which reads keys until it returns.
KeyF ==
    /\ ReadKey
    /\ fgpc' = "picker"
    /\ k' = "f"
    /\ UNCHANGED <<hostname, fgExc, tuiVars, extVars, threads, view, menu, scan>>

\* PickerSelects without line 286: the cursor stays where it was.
PickerSelectsKeepsCursor ==
    /\ fgpc = "picker"
    /\ keys' = keys
    /\ \E selected_country \in all_countries :
          Rerender(FALSE, get_tailscale_list_nodes(selected_country),
                   selected_country, suggested_index, current_selection)
    /\ Return
    /\ UNCHANGED <<stop_polling, polling_thread, pending_hostname, extVars,
                   threads, view, menu, scan>>

\* _show_filter_menu, lines 282-289, the picker returning a country.
PickerSelects ==
    /\ fgpc = "picker"
    /\ keys' = keys
    /\ \E selected_country \in all_countries :
          Rerender(FALSE, get_tailscale_list_nodes(selected_country),
                   selected_country, suggested_index, 0)
    /\ Return
    /\ UNCHANGED <<stop_polling, polling_thread, pending_hostname, extVars,
                   threads, view, menu, scan>>

\* _show_filter_menu, lines 282-289, the picker returning None.
PickerCancels ==
    /\ fgpc = "picker"
    /\ keys' = keys
    /\ Rerender(FALSE, exit_node_entries, country_filter, suggested_index,
                current_selection)
    /\ Return
    /\ UNCHANGED <<stop_polling, polling_thread, pending_hostname, extVars,
                   threads, view, menu, scan>>

\* handle_key_press, lines 192-195 ("c"), then lines 199-202.
KeyC ==
    /\ ReadKey
    /\ Rerender(FALSE, get_tailscale_list_nodes(""), "", suggested_index, 0)
    /\ Return
    /\ UNCHANGED <<stop_polling, polling_thread, pending_hostname, extVars,
                   threads, view, menu, scan>>

\* KeyExit without line 197: sys.exit alone.
KeyExitNoStop ==
    /\ ReadKey
    /\ \E key \in {"CTRL_C", "x"} : k' = key
    /\ Terminate("SystemExit")
    /\ UNCHANGED <<tuiVars, extVars, threads, view, menu, scan>>

\* handle_key_press, lines 196-198 (CTRL_C read as a key, or "x").
KeyExit ==
    /\ ReadKey
    /\ \E key \in {"CTRL_C", "x"} : k' = key
    /\ stop_polling' = TRUE
    /\ Terminate("SystemExit")
    /\ UNCHANGED <<current_selection, suggested_index, active_exit_node,
                   exit_node_entries, country_filter, polling_thread,
                   pending_hostname, extVars, threads, view, menu, scan>>

\* handle_key_press, lines 158-160: KeyboardInterrupt raised by readkey.
KeyInterrupt ==
    /\ ReadKey
    /\ k' = k
    /\ stop_polling' = TRUE
    /\ Terminate("SystemExit")
    /\ UNCHANGED <<current_selection, suggested_index, active_exit_node,
                   exit_node_entries, country_filter, polling_thread,
                   pending_hostname, extVars, threads, view, menu, scan>>

\* check_output raises CalledProcessError in a command the foreground
\* thread runs: nothing catches it and the process ends.  While
\* _start_status_polling is in progress the commands that can fail are those
\* of the render that follows line 305, after the stop signal is cleared.
FgCommandFails ==
    /\ fgpc \in {"readkey", "join", "sleep", "picker"}
    /\ fgpc = "readkey" => keys > 0
    /\ keys' = IF fgpc = "readkey" THEN keys - 1 ELSE keys
    /\ Terminate("CalledProcessError")
    /\ k' = k
    /\ stop_polling' = IF fgpc = "join" THEN FALSE ELSE stop_polling
    /\ UNCHANGED <<current_selection, suggested_index, active_exit_node,
                   exit_node_entries, country_filter, polling_thread,
                   pending_hostname, extVars, threads, view, menu, scan>>


\* --------------------------------------------------- the poller threads
\* Converged with "or" for "and": either observation alone ends the loop.
ConvergedEither(t) == threads[t].status_selected \/ threads[t].is_active

\* _poll_status, line 322.
Converged(t) == threads[t].status_selected /\ threads[t].is_active

\* What is left of a thread that has ended: how it ended.
Ended(pc, how) == [Unstarted EXCEPT !.pc = pc, !.how = how]

\* PollTop without the check of the stop signal: the loop is `while True`.
PollTopUnchecked(t) ==
    /\ fgpc # "terminated"
    /\ threads[t].pc = "top"
    /\ threads' = [threads EXCEPT ![t] =
          [@ EXCEPT !.pc = "refresh_store",
                    !.listed = get_tailscale_list_nodes(country_filter)]]
    /\ UNCHANGED <<extVars, tuiVars, fgVars, view, menu, scan>>

\* _poll_status, line 309, reached at the start or after the sleep of line
\* 339: the stop signal is checked and the loop left when it is set;
\* otherwise line 310 -> refresh_entries, line 277: the filter is read and
\* the inventory command run.
PollTop(t) ==
    /\ fgpc # "terminated"
    /\ threads[t].pc = "top"
    /\ threads' = [threads EXCEPT ![t] =
          IF stop_polling
          THEN Ended("returned", "stopped")
          ELSE [@ EXCEPT !.pc = "refresh_store",
                         !.listed = get_tailscale_list_nodes(country_filter)]]
    /\ UNCHANGED <<extVars, tuiVars, fgVars, view, menu, scan>>

\* refresh_entries, line 277: the result is stored; _poll_status, lines
\* 313-316.
PollRefreshStore(t) ==
    /\ fgpc # "terminated"
    /\ threads[t].pc = "refresh_store"
    /\ exit_node_entries' = threads[t].listed
    /\ threads' = [threads EXCEPT ![t] =
          [@ EXCEPT !.pc = "query_active",
                    !.listed = <<>>,
                    !.status_selected =
                        StatusSelected(exit_node_entries', threads[t].target)]]
    /\ UNCHANGED <<extVars, current_selection, suggested_index,
                   active_exit_node, country_filter, stop_polling,
                   polling_thread, pending_hostname, fgVars, view, menu, scan>>

\* _poll_status, lines 319-323: the active node is queried; on convergence
\* the pending-target marker is cleared.
PollQueryActive(t) ==
    /\ fgpc # "terminated"
    /\ threads[t].pc = "query_active"
    /\ LET is_active ==
              IsActive(get_tailscale_current_exit_node, threads[t].target)
       IN /\ threads' = [threads EXCEPT ![t] =
                [@ EXCEPT !.pc = "render_query", !.is_active = is_active]]
          /\ pending_hostname' =
                IF threads[t].status_selected /\ is_active
                THEN 0 ELSE pending_hostname
    /\ UNCHANGED <<extVars, current_selection, suggested_index,
                   active_exit_node, exit_node_entries, country_filter,
                   stop_polling, polling_thread, fgVars, view, menu, scan>>

\* generate_populated_table, line 205, called at line 327 or 335.
PollRenderQuery(t) ==
    /\ fgpc # "terminated"
    /\ threads[t].pc = "render_query"
    /\ threads' = [threads EXCEPT ![t] =
          [@ EXCEPT !.pc = "render_check",
                    !.active_node = get_tailscale_current_exit_node]]
    /\ UNCHANGED <<extVars, tuiVars, fgVars, view, menu, scan>>

\* generate_populated_table, lines 207-213: either the self-heal refresh
\* is entered (line 212 -> 277, the inventory command run), or the queried
\* active node is recorded.
PollRenderCheck(t) ==
    /\ fgpc # "terminated"
    /\ threads[t].pc = "render_check"
    /\ IF SelfHeal(active_exit_node, threads[t].active_node)
       THEN /\ threads' = [threads EXCEPT ![t] =
                  [@ EXCEPT !.pc = "heal_store",
                            !.listed = get_tailscale_list_nodes(country_filter)]]
            /\ UNCHANGED active_exit_node
       ELSE /\ threads' = [threads EXCEPT ![t] =
                  [@ EXCEPT !.pc = "render_table"]]
            /\ active_exit_node' = threads[t].active_node
    /\ UNCHANGED <<extVars, current_selection, suggested_index,
                   exit_node_entries, country_filter, stop_polling,
                   polling_thread, pending_hostname, fgVars, view, menu, scan>>

\* refresh_entries, line 277, called at line 212: the result is stored;
\* then line 213.
PollHealStore(t) ==
    /\ fgpc # "terminated"
    /\ threads[t].pc = "heal_store"
    /\ exit_node_entries' = threads[t].listed
    /\ active_exit_node' = threads[t].active_node
    /\ threads' = [threads EXCEPT ![t] =
          [@ EXCEPT !.pc = "render_table", !.listed = <<>>]]
    /\ UNCHANGED <<extVars, current_selection, suggested_index,
                   country_filter, stop_polling, polling_thread,
                   pending_hostname, fgVars, view, menu, scan>>

\* generate_populated_table, lines 215-262, and live.update: the render is
\* pushed; on convergence _poll_status returns (line 330), otherwise it
\* sleeps (line 339) and comes back to line 309.
PollRenderTable(t) ==
    /\ fgpc # "terminated"
    /\ threads[t].pc = "render_table"
    /\ threads' = [threads EXCEPT ![t] =
          IF Converged(t)
          THEN Ended("returned", "converged")
          ELSE Started(threads[t].target)]
    /\ UNCHANGED <<extVars, tuiVars, fgVars, view, menu, scan>>

\* check_output raises CalledProcessError in a command the poller runs
\* (the inventory, the active node of line 319, the active node of line
\* 205, the self-heal inventory): nothing catches it and the thread ends;
\* the other threads go on.
PollCommandFails(t) ==
    /\ fgpc # "terminated"
    /\ \/ threads[t].pc = "top" /\ ~stop_polling
       \/ threads[t].pc \in {"query_active", "render_query"}
       \/ /\ threads[t].pc = "render_check"
          /\ SelfHeal(active_exit_node, threads[t].active_node)
    /\ threads' = [threads EXCEPT ![t] = Ended("raised", "CalledProcessError")]
    /\ UNCHANGED <<extVars, tuiVars, fgVars, view, menu, scan>>

PollStep(t) ==
    \/ PollTop(t)
    \/ PollRefreshStore(t)
    \/ PollQueryActive(t)
    \/ PollRenderQuery(t)
    \/ PollRenderCheck(t)
    \/ PollHealStore(t)
    \/ PollRenderTable(t)

Next ==
    \/ ExtApply
    \/ KeyDown
    \/ KeyUp
    \/ KeyOther
    \/ KeyS
    \/ KeyEnter
    \/ JoinReturns
    \/ JoinTimesOut
    \/ KeyD
    \/ WakeD
    \/ KeyF
    \/ PickerSelects
    \/ PickerCancels
    \/ KeyC
    \/ KeyExit
    \/ KeyInterrupt
    \/ FgCommandFails
    \/ \E t \in Threads : PollStep(t)
    \/ \E t \in Threads : PollCommandFails(t)

Spec == Init /\ [][Next]_vars

\* The poller threads are scheduled: a thread that can take a step of
\* _poll_status eventually takes one.  Nothing is assumed of the foreground
\* thread, which waits for keys, nor of the external system.
FairSpec == Spec /\ \A t \in Threads : WF_vars(PollStep(t))

\* ----------------------------------------------- a longer run of keys
\* The dashboard on the full inventory with nothing selected and nothing
\* suggested, in a run of one more key than MaxKeys.
InitDeep ==
    /\ inventory = InventoryOf(MaxNodes)
    /\ extSelected = 0
    /\ extActive = extSelected
    /\ extSuggested = 0
    /\ current_selection = 0
    /\ suggested_index = NoIndex
    /\ active_exit_node = extActive
    /\ exit_node_entries = get_tailscale_list_nodes("")
    /\ country_filter = ""
    /\ stop_polling = FALSE
    /\ polling_thread = 0
    /\ pending_hostname = 0
    /\ fgpc = "readkey"
    /\ k = ""
    /\ hostname = 0
    /\ fgExc = "none"
    /\ keys = MaxKeys + 1
    /\ threads = [t \in Threads |-> Unstarted]
    /\ view = NoView
    /\ menu = NoMenu
    /\ scan = NoScan

SpecDeep == InitDeep /\ [][Next]_vars

\* ------------------------------------------- the list view, on its own
\* Cursor movement and windowing of a list of `len` rows on a terminal of
\* `height` lines, for every length, starting cursor and height: the DOWN
\* and UP handlers followed by their render.
InitList ==
    /\ \E len \in 1..MaxLen, start \in 0..(MaxLen - 1), height \in 0..MaxHeight :
          /\ start < len
          /\ view = [len |-> len, start |-> start, cursor |-> start,
                     height |-> height, downs |-> 0, ups |-> 0,
                     rows |-> RenderedRows(start, height, len)]
    /\ inventory = <<>>
    /\ extSelected = 0
    /\ extActive = 0
    /\ extSuggested = 0
    /\ current_selection = 0
    /\ suggested_index = NoIndex
    /\ active_exit_node = 0
    /\ exit_node_entries = <<>>
    /\ country_filter = ""
    /\ stop_polling = FALSE
    /\ polling_thread = 0
    /\ pending_hostname = 0
    /\ fgpc = "readkey"
    /\ k = ""
    /\ hostname = 0
    /\ fgExc = "none"
    /\ keys = MaxKeys
    /\ threads = [t \in Threads |-> Unstarted]
    /\ menu = NoMenu
    /\ scan = NoScan

\* handle_key_press, lines 161-164 and 199-202, on the list alone.
ViewDown ==
    /\ view.downs < view.len
    /\ LET cursor == MoveDown(view.cursor, view.len)
       IN view' = [view EXCEPT !.cursor = cursor, !.downs = @ + 1,
                               !.rows = RenderedRows(cursor, view.height,
                                                     view.len)]
    /\ UNCHANGED <<extVars, tuiVars, fgVars, threads, menu, scan>>

\* handle_key_press, lines 165-168 and 199-202, on the list alone.
ViewUp ==
    /\ view.ups < view.len
    /\ LET cursor == MoveUp(view.cursor, view.len)
       IN view' = [view EXCEPT !.cursor = cursor, !.ups = @ + 1,
                               !.rows = RenderedRows(cursor, view.height,
                                                     view.len)]
    /\ UNCHANGED <<extVars, tuiVars, fgVars, threads, menu, scan>>

NextList ==
    \/ ViewDown
    \/ ViewUp

SpecList == InitList /\ [][NextList]_vars

\* The dashboard, its pollers and the external system set aside, for the
\* parts of the program that are checked on their own.
NoDashboard ==
    /\ inventory = <<>>
    /\ extSelected = 0
    /\ extActive = 0
    /\ extSuggested = 0
    /\ current_selection = 0
    /\ suggested_index = NoIndex
    /\ active_exit_node = 0
    /\ exit_node_entries = <<>>
    /\ country_filter = ""
    /\ stop_polling = FALSE
    /\ polling_thread = 0
    /\ pending_hostname = 0
    /\ fgpc = "readkey"
    /\ k = ""
    /\ hostname = 0
    /\ fgExc = "none"
    /\ keys = MaxKeys
    /\ threads = [t \in Threads |-> Unstarted]
    /\ view = NoView

\* ------------------------------------------------ fuzzy_match, on its own
\* Strings are sequences of one-character strings over a small alphabet with
\* both cases.
Alphabet == {"a", "b", "A"}

\* str.lower(), one character at a time.
lower(c) == IF c = "A" THEN "a" ELSE IF c = "B" THEN "b" ELSE c

Lower(str) == [i \in 1..Len(str) |-> lower(str[i])]

StringsUpTo(n) == UNION {[1..m -> Alphabet] : m \in 0..n}

Min(a, b) == IF a < b THEN a ELSE b

\* ScanChar that starts the query over on a character that does not match:
\* the query has to appear in one piece.
ScanCharContiguous(query, query_idx, char) ==
    IF query_idx < Len(query) /\ char = query[query_idx + 1]
    THEN query_idx + 1
    ELSE IF query_idx < Len(query) THEN 0 ELSE query_idx

\* fuzzy_match, lines 28-30: one iteration of the loop over the text.
ScanChar(query, query_idx, char) ==
    IF query_idx < Len(query) /\ char = query[query_idx + 1]
    THEN query_idx + 1
    ELSE query_idx

\* fuzzy_match, lines 27-30: the loop from position pos of the text on.
RECURSIVE ScanFrom(_, _, _, _)
ScanFrom(query, text, pos, query_idx) ==
    IF pos > Len(text) THEN query_idx
    ELSE ScanFrom(query, text, pos + 1, ScanChar(query, query_idx, text[pos]))

\* fuzzy_match(query, text), lines 23-31.
fuzzy_match(query, text) ==
    ScanFrom(Lower(query), Lower(text), 1, 0) = Len(Lower(query))

\* One call of fuzzy_match, for every query and text: lines 25-27.
InitFuzzy ==
    /\ NoDashboard
    /\ menu = NoMenu
    /\ \E query \in StringsUpTo(MaxQuery), text \in StringsUpTo(MaxText) :
          scan = [query |-> Lower(query), text |-> Lower(text),
                  given_query |-> query, given_text |-> text,
                  pos |-> 0, query_idx |-> 0, result |-> "none"]

\* fuzzy_match, lines 28-30: the next character of the text.
FuzzyIterate ==
    /\ scan.result = "none"
    /\ scan.pos < Len(scan.text)
    /\ scan' = [scan EXCEPT
          !.pos = @ + 1,
          !.query_idx = ScanChar(scan.query, @, scan.text[scan.pos + 1])]
    /\ UNCHANGED <<extVars, tuiVars, fgVars, threads, view, menu>>

\* fuzzy_match, line 31, after the loop.
FuzzyReturn ==
    /\ scan.result = "none"
    /\ scan.pos = Len(scan.text)
    /\ scan' = [scan EXCEPT !.result =
          IF scan.query_idx = Len(scan.query) THEN "true" ELSE "false"]
    /\ UNCHANGED <<extVars, tuiVars, fgVars, threads, view, menu>>

NextFuzzy ==
    \/ FuzzyIterate
    \/ FuzzyReturn

SpecFuzzy == InitFuzzy /\ [][NextFuzzy]_vars

\* ------------------------------------------- the country picker, on its own
\* The countries a picker may be given, in the order sorted() puts them
\* (upper case before lower case).
CountryPool == << <<"A", "b">>, <<"B", "a">>, <<"a", "B", "a">>, <<"b">> >>

\* The countries of the pool whose index is in S, in pool order.
PoolList(S) ==
    LET F[i \in 0..Len(CountryPool)] ==
            IF i = 0 THEN <<>>
            ELSE IF i \in S THEN Append(F[i - 1], CountryPool[i])
            ELSE F[i - 1]
    IN F[Len(CountryPool)]

\* Keys typed into the search query: len(k) == 1 and k.isprintable().
Printable == {"a", "b", "B"}

\* filter_countries without line 50: the selection is left where it was.
filter_countries_unclamped(m) ==
    LET Matches(c) == fuzzy_match(m.search_query, c)
        filtered == IF m.search_query = <<>> THEN m.all_countries
                    ELSE SelectSeq(m.all_countries, Matches)
    IN [m EXCEPT !.filtered_countries = filtered]

\* CountryFilterMenu.filter_countries, lines 43-50.
filter_countries(m) ==
    LET Matches(c) == fuzzy_match(m.search_query, c)
        filtered == IF m.search_query = <<>> THEN m.all_countries
                    ELSE SelectSeq(m.all_countries, Matches)
    IN [m EXCEPT !.filtered_countries = filtered,
                 !.selection = Min(m.selection, Max(0, Len(filtered) - 1))]

\* CountryFilterMenu.__init__, lines 35-41, for every list of countries.
InitPicker ==
    /\ NoDashboard
    /\ scan = NoScan
    /\ \E S \in SUBSET (1..Len(CountryPool)) :
          menu = [NoMenu EXCEPT !.all_countries = PoolList(S),
                                !.filtered_countries = PoolList(S),
                                !.outcome = "active"]

\* run, line 92: readkey is called, while the picker is open and the run has
\* keys left.
MenuReads ==
    /\ menu.outcome = "active"
    /\ menu.keys < MaxMenuKeys
    /\ UNCHANGED <<extVars, tuiVars, fgVars, threads, view, scan>>

\* The picker after readkey has returned key.
Read(m, key) == [m EXCEPT !.k = key, !.keys = @ + 1]

\* run, lines 93-94: KeyboardInterrupt raised by readkey.
MenuInterrupt ==
    /\ MenuReads
    /\ menu' = [Read(menu, "interrupt") EXCEPT !.outcome = "cancelled"]

\* run, lines 96-97.
MenuEscape ==
    /\ MenuReads
    /\ menu' = [Read(menu, "ESC") EXCEPT !.outcome = "cancelled"]

\* MenuEnter that returns the first row whatever the selection.
MenuEnterFirstRow ==
    /\ MenuReads
    /\ menu' = IF menu.filtered_countries # <<>>
               THEN [Read(menu, "ENTER") EXCEPT
                        !.outcome = "selected",
                        !.returned = menu.filtered_countries[1]]
               ELSE [Read(menu, "ENTER") EXCEPT !.outcome = "cancelled"]

\* run, lines 98-101.
MenuEnter ==
    /\ MenuReads
    /\ menu' = IF menu.filtered_countries # <<>>
               THEN [Read(menu, "ENTER") EXCEPT
                        !.outcome = "selected",
                        !.returned =
                            menu.filtered_countries[menu.selection + 1]]
               ELSE [Read(menu, "ENTER") EXCEPT !.outcome = "cancelled"]

\* run, lines 102-106.
MenuDown ==
    /\ MenuReads
    /\ menu' = IF menu.filtered_countries # <<>>
               THEN [Read(menu, "DOWN") EXCEPT !.selection =
                        (menu.selection + 1) % Len(menu.filtered_countries)]
               ELSE Read(menu, "DOWN")

\* run, lines 107-111.
MenuUp ==
    /\ MenuReads
    /\ menu' = IF menu.filtered_countries # <<>>
               THEN [Read(menu, "UP") EXCEPT !.selection =
                        (menu.selection - 1) % Len(menu.filtered_countries)]
               ELSE Read(menu, "UP")

\* MenuBackspace without line 114: the list is not filtered again.
MenuBackspaceKeepsList ==
    /\ MenuReads
    /\ menu' = [Read(menu, "BACKSPACE") EXCEPT
                    !.search_query =
                        SubSeq(menu.search_query, 1, Len(menu.search_query) - 1),
                    !.erased = IF menu.search_query = <<>> THEN @ ELSE @ + 1]

\* run, lines 112-114: search_query[:-1], then filter_countries.
MenuBackspace ==
    /\ MenuReads
    /\ menu' = filter_countries(
          [Read(menu, "BACKSPACE") EXCEPT
              !.search_query =
                  SubSeq(menu.search_query, 1, Len(menu.search_query) - 1),
              !.erased = IF menu.search_query = <<>> THEN @ ELSE @ + 1])

\* run, lines 115-117: a printable character, queries of at most MaxQuery
\* characters.
MenuType ==
    /\ Len(menu.search_query) < MaxQuery
    /\ \E ch \in Printable :
          /\ MenuReads
          /\ menu' = filter_countries(
                [Read(menu, ch) EXCEPT
                    !.search_query = Append(menu.search_query, ch),
                    !.typed = @ + 1])

\* run: a key no branch names (TAB, a function key), line 119 alone.
MenuOtherKey ==
    /\ MenuReads
    /\ menu' = Read(menu, "TAB")

NextPicker ==
    \/ MenuInterrupt
    \/ MenuEscape
    \/ MenuEnter
    \/ MenuDown
    \/ MenuUp
    \/ MenuBackspace
    \/ MenuType
    \/ MenuOtherKey

SpecPicker == InitPicker /\ [][NextPicker]_vars

\* ---------------------------------------------------------------- claims
\* A step of thread t that belongs to an iteration of _poll_status: any
\* step of a started thread other than leaving the loop at line 309.
IterationStep(t) ==
    /\ threads'[t] # threads[t]
    /\ threads[t].pc # "unstarted"
    /\ ~(threads[t].pc = "top" /\ threads'[t].pc = "returned")

\* C1: at most one poller runs at a time: once _start_status_polling has
\* started a new poller, no earlier poller performs any step of an
\* iteration (refresh, active-node query or render); only the thread that
\* self._polling_thread names iterates.
C1_OnlyLatestPollerIterates ==
    [][\A t \in Threads : IterationStep(t) => t = polling_thread]_vars

\* C2: whenever exit_node_entries is non-empty the cursor is a valid index
\* into it.
C2_CursorInRange ==
    Len(exit_node_entries) > 0 =>
        (0 <= current_selection /\ current_selection < Len(exit_node_entries))

\* C3: for every cursor in range, every length and every terminal height,
\* the rows generate_populated_table renders include the cursor's row.
C3_WindowHoldsCursor ==
    view.len > 0 => view.cursor \in view.rows

MoveKeys == {"DOWN", "j", "UP", "k"}

\* C4: reading DOWN, UP, "j" or "k" while exit_node_entries is empty is a
\* no-op: no exception ends the process and the dashboard state is as it was.
C4_MoveOnEmptyIsNoOp ==
    [][(fgpc = "readkey" /\ Len(exit_node_entries) = 0 /\ keys' = keys - 1
            /\ k' \in MoveKeys)
         => (fgExc' = "none" /\ fgpc' = "readkey" /\ UNCHANGED tuiVars)]_vars

\* C5: on a non-empty list that does not change, each DOWN moves the cursor
\* by +1 modulo the length and each UP undoes a DOWN, so the cursor is the
\* start plus the downs minus the ups modulo the length, and after as many
\* DOWNs as there are rows it is back where it started.
C5_CursorCyclic ==
    view.len > 0 =>
        /\ view.cursor = (view.start + view.downs - view.ups) % view.len
        /\ (view.downs = view.len /\ view.ups = 0) => view.cursor = view.start

\* C5 witness: a list of several rows gone round once by DOWN alone, the
\* cursor back on a start that is not the first row.
C5_Witness ==
    /\ view.len >= 3
    /\ view.downs = view.len
    /\ view.ups = 0
    /\ view.start > 0
    /\ view.cursor = view.start

\* C9: when the input loop has left through sys.exit (the exit key "x",
\* CTRL_C read as a key, KeyboardInterrupt raised by readkey), the poller
\* stop signal is set.
C9_StopSetOnExit ==
    fgExc = "SystemExit" => (fgpc = "terminated" /\ stop_polling)

\* C9 witness: the process has exited through sys.exit while a poller
\* thread was still inside its loop.
C9_Witness ==
    /\ fgExc = "SystemExit"
    /\ \E t \in Threads : Alive(t)

\* C10: a failed external command is fatal wherever it occurs: once a
\* command has failed, in the foreground thread or in a poller, the process
\* has terminated and the dashboard no longer runs.
C10_FailureIsFatal ==
    (fgExc = "CalledProcessError" \/ \E t \in Threads : threads[t].pc = "raised")
        => fgpc = "terminated"

\* Thread t takes the step that ends it by returning from _poll_status.
Returns(t) == threads[t].pc # "returned" /\ threads'[t].pc = "returned"

ExtReports(h) ==
    /\ h # 0
    /\ extSelected = h
    /\ extActive = h
    /\ \E i \in 1..Len(inventory) : inventory[i].hostname = h

\* Thread t is the current poller, alive and neither cancelled nor
\* superseded, while the external system reports its target converged.
Tracking(t) ==
    /\ fgpc # "terminated"
    /\ Alive(t)
    /\ t = polling_thread
    /\ ~stop_polling
    /\ ExtReports(threads[t].target)

\* C7: a poller whose target the external system reports selected and
\* active does not go on polling for ever: unless it is cancelled or
\* superseded, or the external system goes back on its report, it ends.
C7_ConvergenceEndsPolling ==
    \A t \in Threads : Tracking(t) ~> ~Tracking(t)

\* C8: once the stop signal is set, a running poller ends unless the signal
\* is cleared or the process ends first; and the step at which a poller
\* sees the signal at the top of its loop only ends it: no refresh of the
\* entries, no active-node query, no render.
C8_CancellationIsPrompt ==
    /\ \A t \in Threads :
          (Alive(t) /\ stop_polling /\ fgpc # "terminated")
              ~> (~Alive(t) \/ ~stop_polling \/ fgpc = "terminated")
    /\ [][\A t \in Threads :
            (threads[t].pc = "top" /\ stop_polling /\ threads'[t] # threads[t])
                => /\ threads'[t].pc = "returned"
                   /\ threads'[t].how = "stopped"
                   /\ UNCHANGED <<tuiVars, extVars>>]_vars

\* C8 witness: a poller has returned on the stop signal while the foreground
\* was still joining it.
C8_Witness ==
    /\ fgpc = "join"
    /\ stop_polling
    /\ polling_thread \in Threads
    /\ threads[polling_thread].pc = "returned"
    /\ threads[polling_thread].how = "stopped"

\* The 0-based index of the first row of entries whose hostname is h, NoIndex
\* when no row has it.
IndexOfHost(entries, h) ==
    LET hits == {i \in 1..Len(entries) : entries[i].hostname = h}
    IN IF hits = {} THEN NoIndex
       ELSE (CHOOSE i \in hits : \A j \in hits : i <= j) - 1

\* C11: "s" with a suggestion H applies H and starts a poller for H, and once
\* the handler has re-rendered, if H is the hostname of row i of the entries
\* then suggested_index and the cursor are both i; "s" without a suggestion
\* applies nothing, starts no poller, leaves suggested_index absent and
\* the cursor where it was.
C11_UseSuggested ==
    [][/\ (fgpc = "readkey" /\ k' = "s")
            => /\ extSuggested # 0
               /\ extSelected' = extSuggested
               /\ hostname' = extSuggested
       /\ (fgpc = "join" /\ k = "s" /\ fgpc' = "readkey")
            => /\ polling_thread' \in Threads
               /\ threads'[polling_thread'] = Started(extSuggested)
               /\ threads[polling_thread'] = Unstarted
               /\ IndexOfHost(exit_node_entries', extSuggested) # NoIndex
                    => /\ suggested_index' =
                              IndexOfHost(exit_node_entries', extSuggested)
                       /\ current_selection' = suggested_index'
       /\ (KeyS /\ extSuggested = 0)
            => /\ suggested_index' = NoIndex
               /\ current_selection' = current_selection
               /\ UNCHANGED <<extVars, threads, polling_thread,
                              pending_hostname>>
      ]_vars

\* C12: ENTER on non-empty entries applies the hostname of the row under
\* the cursor, as read at the key press, before any poller is started, then
\* starts a poller for that same hostname; the cursor and the country filter
\* are as they were and the input loop is back at readkey with the poller
\* running.
C12_EnterAppliesThenPolls ==
    [][/\ (fgpc = "readkey" /\ k' = "ENTER" /\ Len(exit_node_entries) > 0)
            => /\ current_selection < Len(exit_node_entries)
               /\ fgpc' = "join"
               /\ extSelected' = exit_node_entries[current_selection + 1].hostname
               /\ hostname' = extSelected'
               /\ UNCHANGED <<threads, polling_thread, current_selection,
                              country_filter>>
       /\ (fgpc = "join" /\ k = "ENTER" /\ fgpc' = "readkey")
            => /\ polling_thread' \in Threads
               /\ threads[polling_thread'] = Unstarted
               /\ threads'[polling_thread'] = Started(hostname)
               /\ UNCHANGED <<extSelected, current_selection, country_filter>>
      ]_vars

IsSubsequence(query, text) ==
    \E f \in [1..Len(query) -> 1..Len(text)] :
        /\ \A i, j \in 1..Len(query) : i < j => f[i] < f[j]
        /\ \A i \in 1..Len(query) : text[f[i]] = query[i]

\* Case-insensitive subsequence match of a query against a candidate.
SubsequenceMatch(query, candidate) ==
    IsSubsequence(Lower(query), Lower(candidate))

\* The elements of a list of countries that the query matches, in order.
MatchesOf(query, countries) ==
    LET Keep(c) == SubsequenceMatch(query, c)
    IN SelectSeq(countries, Keep)

\* C14: in every state of the picker, filtered_countries is exactly the
\* countries of all_countries that the search query subsequence-matches, in
\* the order of all_countries, and when it is non-empty the selection is one
\* of its indices.
C14_PickerInvariant ==
    menu.outcome # "none" =>
        /\ menu.filtered_countries =
              MatchesOf(menu.search_query, menu.all_countries)
        /\ menu.filtered_countries # <<>> =>
              (0 <= menu.selection
                 /\ menu.selection <= Len(menu.filtered_countries) - 1)

\* C14 witness: a typed query has narrowed the list to several countries,
\* fewer than all, and the selection is on the last of them.
C14_Witness ==
    /\ menu.outcome = "active"
    /\ menu.typed >= 1
    /\ Len(menu.filtered_countries) >= 2
    /\ Len(menu.filtered_countries) < Len(menu.all_countries)
    /\ menu.selection = Len(menu.filtered_countries) - 1

\* C15: whenever the query is empty again, after whatever was typed and
\* erased, filtered_countries is all_countries and the selection is one of
\* its indices (0 when there is no country at all); and BACKSPACE on an empty
\* query changes nothing in the picker.
C15_PickerRoundTrip ==
    /\ [](menu.outcome = "active" /\ menu.search_query = <<>>
            => /\ menu.filtered_countries = menu.all_countries
               /\ 0 <= menu.selection
               /\ menu.selection <= Max(0, Len(menu.all_countries) - 1))
    /\ [][(menu.outcome = "active" /\ menu.search_query = <<>>
              /\ menu'.keys = menu.keys + 1 /\ menu'.k = "BACKSPACE")
            => menu' = Read(menu, "BACKSPACE")]_vars

\* C15 witness: two characters were typed and both erased again, in a picker
\* of several countries.
C15_Witness ==
    /\ menu.outcome = "active"
    /\ menu.typed = 2
    /\ menu.erased = 2
    /\ menu.search_query = <<>>
    /\ Len(menu.all_countries) >= 3
    /\ menu.filtered_countries = menu.all_countries

\* C16: a step of the open picker closes it only on ENTER, ESC or an
\* interrupt: ENTER with a non-empty list returns the country under the
\* selection, ENTER with an empty list cancels, ESC and an interrupt cancel;
\* after any other key the picker is still open; a closed picker reads no
\* more keys.
C16_PickerTermination ==
    [][/\ (menu.outcome = "active" /\ menu' # menu) =>
            IF menu'.k = "ENTER"
            THEN IF menu.filtered_countries # <<>>
                 THEN /\ menu'.outcome = "selected"
                      /\ menu.selection < Len(menu.filtered_countries)
                      /\ menu'.returned =
                            menu.filtered_countries[menu.selection + 1]
                 ELSE menu'.outcome = "cancelled"
            ELSE IF menu'.k \in {"ESC", "interrupt"}
                 THEN menu'.outcome = "cancelled"
                 ELSE menu'.outcome = "active"
       /\ menu.outcome \in {"selected", "cancelled"} => menu' = menu
      ]_vars

\* C16 witness: ENTER has returned a country that a typed query left in the
\* list, and not the first one.
C16_Witness ==
    /\ menu.outcome = "selected"
    /\ menu.k = "ENTER"
    /\ menu.typed >= 1
    /\ menu.selection >= 1
    /\ menu.returned = menu.filtered_countries[menu.selection + 1]

\* C17: fuzzy_match returns true exactly when strictly increasing positions
\* of the lower-cased text spell out the lower-cased query: the loop's
\* result, and the function as the picker calls it, agree with the
\* existential definition; the empty query matches every text.
C17_GreedyIsSubsequence ==
    /\ scan.result # "none" =>
          ((scan.result = "true")
              <=> SubsequenceMatch(scan.given_query, scan.given_text))
    /\ fuzzy_match(scan.given_query, scan.given_text)
          <=> SubsequenceMatch(scan.given_query, scan.given_text)
    /\ (scan.result # "none" /\ scan.given_query = <<>>)
          => scan.result = "true"

\* C17 witness: a query in mixed case matched by a text that holds its
\* characters apart and in the other case.
C17_Witness ==
    /\ scan.result = "true"
    /\ scan.given_query = <<"A", "b">>
    /\ scan.given_text = <<"b", "a", "A", "b">>

\* C18: when a poller builds the title of its render from
\* self.active_exit_node (lines 218-219), the value it finds there is the
\* active node that same render queried at line 205, whatever the other
\* threads did in between.
C18_TitleShowsOwnQuery ==
    [][\A t \in Threads :
        (threads[t].pc = "render_table" /\ threads'[t] # threads[t])
            => active_exit_node = threads[t].active_node]_vars

\* The hostnames of a list of entries, in order.
Hostnames(entries) == [i \in 1..Len(entries) |-> entries[i].hostname]

\* Thread t is between running the inventory command and storing its result.
Refreshing(t) == threads[t].pc \in {"refresh_store", "heal_store"}

\* C19: whenever no refresh is in progress, the entries are the rows the
\* inventory lists under the current country filter.
C19_EntriesAgreeWithFilter ==
    (fgpc # "terminated" /\ \A t \in Threads : ~Refreshing(t))
        => Hostnames(exit_node_entries) =
             Hostnames(get_tailscale_list_nodes(country_filter))

\* C20: whenever suggested_index is present it is an index of the entries
\* and the row it names has the suggested hostname.
C20_SuggestedIndexValid ==
    suggested_index # NoIndex
        => /\ 0 <= suggested_index
           /\ suggested_index < Len(exit_node_entries)
           /\ exit_node_entries[suggested_index + 1].hostname = extSuggested

====
